---- MODULE Spec2Model ----
(***************************************************************************)
(* A model of three parts of html-eslint's eslint-plugin:                  *)
(*   - rules/require-closing-tags.js, the closing-tag rule, as the         *)
(*     enter/exit traversal of a tree of tags (SpecClose);                 *)
(*   - the newline rule (element-newline) held in rules/utils/node.js,     *)
(*     as checkSiblings applied to a document (SpecNewline);               *)
(*   - splitToLineNodes of rules/utils/node.js (SpecSplit).                *)
(* Names and text are sequences of one-character strings, so that          *)
(* pattern matching, trimming and splitting are computed, not assumed.     *)
(***************************************************************************)
EXTENDS Integers, Sequences, FiniteSets, TLC

VARIABLES
    options,        \* closing-tag rule: context.options, normalised
    ruleDef,        \* which of the two definitions of the rule is loaded
    path,           \* the traverser's stack of open tags, outermost first
    foreignContext, \* the rule's foreign-context stack (names)
    node,           \* the tag handed to the latest Tag handler call
    locals,         \* the locals of the latest Tag handler call
    reported,       \* the diagnostics of the latest Tag handler call
    pc,             \* "walk", "done", "aborted" (a handler threw), "idle"
    nlOptions,      \* newline rule: context.options[0], inline and skip
    doc,            \* newline rule: the parsed document
    result,         \* newline rule: what checkSiblings(document.children) gave
    nlPc,           \* "parsing", "checked", "idle"
    textNode,       \* splitToLineNodes: the Text / CommentContent node
    lineNodes,      \* splitToLineNodes: the Line nodes returned
    splitPc         \* "input", "split", "idle"

closeVars == <<options, ruleDef, path, foreignContext, node, locals, reported, pc>>
newlineVars == <<nlOptions, doc, result, nlPc>>
splitVars == <<textNode, lineNodes, splitPc>>
vars == <<closeVars, newlineVars, splitVars>>

(***************************************************************************)
(* The values of the variables of a part that is not running, or has not   *)
(* run yet.                                                                *)
(***************************************************************************)
NoMeta == [childFirst |-> 0, childLast |-> 0, shouldBeNewline |-> FALSE]

NoResult == [meta |-> NoMeta, reports |-> <<>>]

NoNlOptions == [inline |-> <<>>, skip |-> <<>>]

NoTextNode == [value |-> <<>>, start |-> 0, line |-> 1, column |-> 0,
               templates |-> <<>>]

(***************************************************************************)
(* Text helpers                                                            *)
(***************************************************************************)
Str_img   == <<"i", "m", "g">>
Str_br    == <<"b", "r">>
Str_input == <<"i", "n", "p", "u", "t">>
Str_div   == <<"d", "i", "v">>
Str_foo   == <<"f", "o", "o">>
Str_myEl  == <<"m", "y", "-", "e", "l">>
Str_svg   == <<"s", "v", "g">>
Str_math  == <<"m", "a", "t", "h">>

\* String.prototype.match with a RegExp made of literal characters: an
\* unanchored search for the pattern in the name.
RegExpMatch(name, pattern) ==
    \E k \in 0..(Len(name) - Len(pattern)) :
        SubSeq(name, k + 1, k + Len(pattern)) = pattern

(***************************************************************************)
(* The closing-tag rule                                                    *)
(***************************************************************************)
MaxDepth == 3
MaxChildren == 2

VOID_ELEMENTS_SET == {Str_img, Str_br, Str_input}

MISSING      == "missing"
MISSING_SELF == "missingSelf"
UNEXPECTED   == "unexpected"

TagNames == {Str_img, Str_div, Str_myEl, Str_svg, Str_math}

\* The Tag nodes the parser hands to the rule.  close is TRUE when a
\* closing-tag node is present; children is children.length.  A tag written
\* "/>" and a void element are closed by their open tag: no closing-tag
\* node, no children.
ParserTags ==
    { t \in [name : TagNames, openEnd : {">", "/>"}, close : BOOLEAN,
             children : 0..MaxChildren] :
        /\ (t.openEnd = "/>" => ~t.close /\ t.children = 0)
        /\ (t.name \in VOID_ELEMENTS_SET => ~t.close /\ t.children = 0) }

NoTag == [name |-> <<>>, openEnd |-> ">", close |-> FALSE, children |-> 0]

\* node.selfClosing: set by the parser when the tag was written "/>".
selfClosing(n) == n.openEnd = "/>"

PatternLists == { <<>>, << Str_div >>, << <<"y", "-">>, <<"v">> >> }

\* context.options: none, or one object.
NoOptions == [given |-> FALSE, selfClosing |-> "never",
              allowSelfClosingCustom |-> FALSE,
              hasCustomPatterns |-> FALSE, customPatterns |-> <<>>]

Options1 ==
    {NoOptions} \cup
    { o \in [given : {TRUE}, selfClosing : {"always", "never"},
             allowSelfClosingCustom : BOOLEAN,
             hasCustomPatterns : BOOLEAN, customPatterns : PatternLists] :
        ~o.hasCustomPatterns => o.customPatterns = <<>> }

\* The second definition's schema has no customPatterns.
Options2 == { o \in Options1 : ~o.hasCustomPatterns }

preferSelfClose(o) == IF o.given THEN o.selfClosing = "always" ELSE FALSE

allowSelfClosingCustom(o) ==
    IF o.given THEN o.allowSelfClosingCustom = TRUE ELSE FALSE

customPatterns(o) ==
    IF o.given /\ o.hasCustomPatterns THEN o.customPatterns ELSE << <<"-">> >>

(***************************************************************************)
(* Fixes.  A report's fix is what calling its fix callback gives: absent   *)
(* (the report has no fix), null, a list of edits, or a TypeError.         *)
(***************************************************************************)
NoFix     == [kind |-> "absent", edits |-> <<>>]
NullFix   == [kind |-> "null", edits |-> <<>>]
ThrownFix == [kind |-> "TypeError", edits |-> <<>>]
Edits(es) == [kind |-> "edits", edits |-> es]

\* fixer.replaceText(node.openEnd, text)
replaceText(text) == [op |-> "replaceText", target |-> "openEnd", text |-> text]

\* fixer.remove(node.close) reads node.close.range: with node.close absent
\* the read throws.
RemoveThrows(n) == ~n.close
removeClose == [op |-> "remove", target |-> "close", text |-> <<>>]

Report(id, anchor, n, fix) ==
    [messageId |-> id, anchor |-> anchor, tag |-> n.name, fix |-> fix]

\* Mutant: the presence test of checkClosingTag inverted.
checkClosingTag_Inverted(n) ==
    IF n.close THEN << Report(MISSING, "node", n, NoFix) >> ELSE <<>>

checkClosingTag(n) ==
    IF ~n.close THEN << Report(MISSING, "node", n, NoFix) >> ELSE <<>>

MissingSelfFix(n, fixable) ==
    IF ~fixable THEN NullFix
    ELSE IF RemoveThrows(n) THEN ThrownFix
    ELSE Edits(<< replaceText(<<" ", "/", ">">>), removeClose >>)

UnexpectedFix(n, fixable) ==
    IF ~fixable THEN NullFix ELSE Edits(<< replaceText(<<">">>) >>)

checkVoidElement(n, shouldSelfClose, fixable) ==
    LET hasSelfClose == n.openEnd = "/>" IN
    (IF shouldSelfClose /\ ~hasSelfClose
        THEN << Report(MISSING_SELF, "openEnd", n, MissingSelfFix(n, fixable)) >>
        ELSE <<>>)
    \o
    (IF ~shouldSelfClose /\ hasSelfClose
        THEN << Report(UNEXPECTED, "openEnd", n, UnexpectedFix(n, fixable)) >>
        ELSE <<>>)

IsForeignName(name) == name \in {Str_svg, Str_math}

\* Mutant: canSelfClose without the test that the custom element is childless.
TagLocals_IgnoreChildren(n, fc, o) ==
    LET isVoidElement == n.name \in VOID_ELEMENTS_SET
        isCustomElement ==
            \E i \in 1..Len(customPatterns(o)) :
                RegExpMatch(n.name, customPatterns(o)[i])
        foreign == Len(fc) > 0
    IN [isVoidElement |-> isVoidElement,
        isCustomElement |-> isCustomElement,
        foreign |-> foreign,
        canSelfClose |->
            \/ isVoidElement
            \/ foreign
            \/ (isCustomElement /\ allowSelfClosingCustom(o))]

\* The locals of Tag (first definition).
TagLocals(n, fc, o) ==
    LET isVoidElement == n.name \in VOID_ELEMENTS_SET
        isCustomElement ==
            \E i \in 1..Len(customPatterns(o)) :
                RegExpMatch(n.name, customPatterns(o)[i])
        foreign == Len(fc) > 0
    IN [isVoidElement |-> isVoidElement,
        isCustomElement |-> isCustomElement,
        foreign |-> foreign,
        canSelfClose |->
            \/ isVoidElement
            \/ foreign
            \/ (isCustomElement /\ allowSelfClosingCustom(o) /\ n.children = 0)]

NoLocals == [isVoidElement |-> FALSE, isCustomElement |-> FALSE,
             foreign |-> FALSE, canSelfClose |-> FALSE]

\* Mutant: the self-close check told that every tag is fixable.
TagReports_AlwaysFixable(n, fc, o) ==
    LET canSelfClose == TagLocals(n, fc, o).canSelfClose IN
    IF selfClosing(n) \/ canSelfClose
        THEN checkVoidElement(n, preferSelfClose(o) /\ canSelfClose, TRUE)
    ELSE IF n.openEnd /= "/>" THEN checkClosingTag(n)
    ELSE <<>>

\* The diagnostics of Tag (first definition).
TagReports(n, fc, o) ==
    LET canSelfClose == TagLocals(n, fc, o).canSelfClose IN
    IF selfClosing(n) \/ canSelfClose
        THEN checkVoidElement(n, preferSelfClose(o) /\ canSelfClose, canSelfClose)
    ELSE IF n.openEnd /= "/>" THEN checkClosingTag(n)
    ELSE <<>>

\* The push that ends Tag (first definition).
TagPush(n, fc) == IF IsForeignName(n.name) THEN Append(fc, n.name) ELSE fc

\* Mutant: the exit handler pops without comparing the name with the top.
TagExitPop_Unconditional(name, fc) ==
    IF Len(fc) > 0 THEN SubSeq(fc, 1, Len(fc) - 1) ELSE fc

\* "Tag:exit" (first definition).
TagExitPop(name, fc) ==
    IF Len(fc) > 0 /\ name = fc[Len(fc)] THEN SubSeq(fc, 1, Len(fc) - 1) ELSE fc

\* The locals and diagnostics of Tag (second definition).
Tag2Locals(n, o) ==
    LET isVoidElement == n.name \in VOID_ELEMENTS_SET IN
    [isVoidElement |-> isVoidElement,
     isCustomElement |-> RegExpMatch(n.name, <<"-">>),
     foreign |-> FALSE,
     canSelfClose |-> isVoidElement]

Tag2Reports(n, o) ==
    LET isVoidElement == n.name \in VOID_ELEMENTS_SET
        canSelfClose == isVoidElement
    IN
    IF selfClosing(n) /\ allowSelfClosingCustom(o) /\ RegExpMatch(n.name, <<"-">>)
        THEN checkVoidElement(n, TRUE, FALSE)
    ELSE IF selfClosing(n) \/ isVoidElement
        THEN checkVoidElement(n, preferSelfClose(o) /\ canSelfClose, canSelfClose)
    ELSE IF n.openEnd /= "/>" THEN checkClosingTag(n)
    ELSE <<>>

\* A fix callback that throws ends the run of the rule.
Throws(reports) ==
    \E i \in 1..Len(reports) : reports[i].fix.kind = "TypeError"

(***************************************************************************)
(* The traversal: depth first, the enter handler before a tag's children   *)
(* and the exit handler after them.  A path entry keeps the tag's name and *)
(* how many of its children are still to come.                             *)
(***************************************************************************)
InitClose ==
    /\ ruleDef \in {1, 2}
    /\ options \in (IF ruleDef = 1 THEN Options1 ELSE Options2)
    /\ path = <<>>
    /\ foreignContext = <<>>
    /\ node = NoTag
    /\ locals = NoLocals
    /\ reported = <<>>
    /\ pc = "walk"
    /\ nlOptions = NoNlOptions /\ doc = <<>> /\ result = NoResult
    /\ nlPc = "idle"
    /\ textNode = NoTextNode /\ lineNodes = <<>> /\ splitPc = "idle"

CanDescend ==
    /\ Len(path) < MaxDepth
    /\ (path /= <<>> => path[Len(path)].left > 0)

Descend(n) ==
    LET below == IF path = <<>> THEN <<>>
                 ELSE SubSeq(path, 1, Len(path) - 1)
                      \o << [path[Len(path)] EXCEPT !.left = @ - 1] >>
    IN Append(below, [name |-> n.name, left |-> n.children])

\* Tag(node), first definition.
Tag(n) ==
    /\ pc = "walk"
    /\ ruleDef = 1
    /\ CanDescend
    /\ node' = n
    /\ locals' = TagLocals(n, foreignContext, options)
    /\ reported' = TagReports(n, foreignContext, options)
    /\ IF Throws(reported')
          THEN /\ pc' = "aborted"
               /\ UNCHANGED <<path, foreignContext>>
          ELSE /\ pc' = "walk"
               /\ path' = Descend(n)
               /\ foreignContext' = TagPush(n, foreignContext)
    /\ UNCHANGED <<options, ruleDef, newlineVars, splitVars>>

\* "Tag:exit"(node), first definition.
TagExit ==
    /\ pc = "walk"
    /\ ruleDef = 1
    /\ path /= <<>>
    /\ foreignContext' = TagExitPop(path[Len(path)].name, foreignContext)
    /\ path' = SubSeq(path, 1, Len(path) - 1)
    /\ node' = NoTag
    /\ locals' = NoLocals
    /\ reported' = <<>>
    /\ UNCHANGED <<options, ruleDef, pc, newlineVars, splitVars>>

\* Tag(node), second definition.
Tag2(n) ==
    /\ pc = "walk"
    /\ ruleDef = 2
    /\ CanDescend
    /\ node' = n
    /\ locals' = Tag2Locals(n, options)
    /\ reported' = Tag2Reports(n, options)
    /\ path' = Descend(n)
    /\ UNCHANGED <<options, ruleDef, foreignContext, pc, newlineVars, splitVars>>

\* The second definition has no exit handler: the traverser leaves the tag.
Leave2 ==
    /\ pc = "walk"
    /\ ruleDef = 2
    /\ path /= <<>>
    /\ path' = SubSeq(path, 1, Len(path) - 1)
    /\ node' = NoTag
    /\ locals' = NoLocals
    /\ reported' = <<>>
    /\ UNCHANGED <<options, ruleDef, foreignContext, pc, newlineVars, splitVars>>

\* The traversal ends when the document's last child has been left.
Finish ==
    /\ pc = "walk"
    /\ path = <<>>
    /\ pc' = "done"
    /\ node' = NoTag
    /\ locals' = NoLocals
    /\ reported' = <<>>
    /\ UNCHANGED <<options, ruleDef, path, foreignContext, newlineVars, splitVars>>

NextClose ==
    \/ \E n \in ParserTags : Tag(n)
    \/ TagExit
    \/ \E n \in ParserTags : Tag2(n)
    \/ Leave2
    \/ Finish


(***************************************************************************)
(* The newline rule (element-newline)                                      *)
(***************************************************************************)
MaxNodes == 3

EXPECT_NEW_LINE_AFTER        == "expectAfter"
EXPECT_NEW_LINE_AFTER_OPEN   == "expectAfterOpen"
EXPECT_NEW_LINE_BEFORE       == "expectBefore"
EXPECT_NEW_LINE_BEFORE_CLOSE == "expectBeforeClose"

Str_inlinePreset == <<"$", "i", "n", "l", "i", "n", "e">>
Str_B   == <<"B">>
Str_pre == <<"p", "r", "e">>

\* PRESETS.$inline
PRESET_inline ==
    << <<"a">>,
       <<"a", "b", "b", "r">>,
       <<"b">>,
       <<"b", "d", "i">>,
       <<"b", "d", "o">>,
       <<"b", "r">>,
       <<"c", "i", "t", "e">>,
       <<"c", "o", "d", "e">>,
       <<"d", "a", "t", "a">>,
       <<"d", "f", "n">>,
       <<"e", "m">>,
       <<"i">>,
       <<"k", "b", "d">>,
       <<"m", "a", "r", "k">>,
       <<"q">>,
       <<"r", "p">>,
       <<"r", "t">>,
       <<"r", "u", "b", "y">>,
       <<"s">>,
       <<"s", "a", "m", "p">>,
       <<"s", "m", "a", "l", "l">>,
       <<"s", "p", "a", "n">>,
       <<"s", "t", "r", "o", "n", "g">>,
       <<"s", "u", "b">>,
       <<"s", "u", "p">>,
       <<"t", "i", "m", "e">>,
       <<"u">>,
       <<"v", "a", "r">>,
       <<"w", "b", "r">> >>

\* String.prototype.toLowerCase, on one character and on a string.
LowerChar(c) ==
    CASE c = "A" -> "a"
      [] c = "B" -> "b"
      [] c = "C" -> "c"
      [] c = "D" -> "d"
      [] c = "E" -> "e"
      [] c = "F" -> "f"
      [] c = "G" -> "g"
      [] c = "H" -> "h"
      [] c = "I" -> "i"
      [] c = "J" -> "j"
      [] c = "K" -> "k"
      [] c = "L" -> "l"
      [] c = "M" -> "m"
      [] c = "N" -> "n"
      [] c = "O" -> "o"
      [] c = "P" -> "p"
      [] c = "Q" -> "q"
      [] c = "R" -> "r"
      [] c = "S" -> "s"
      [] c = "T" -> "t"
      [] c = "U" -> "u"
      [] c = "V" -> "v"
      [] c = "W" -> "w"
      [] c = "X" -> "x"
      [] c = "Y" -> "y"
      [] c = "Z" -> "z"
      [] OTHER -> c

toLowerCase(s) == [i \in 1..Len(s) |-> LowerChar(s[i])]

Includes(list, x) == \E i \in 1..Len(list) : list[i] = x

\* What \s matches among the characters of the model.
IsWhitespace(c) == c \in {" ", "\n", "\r", "\t"}

\* String.prototype.trim
RECURSIVE TrimStart(_)
TrimStart(s) ==
    IF s /= <<>> /\ IsWhitespace(s[1]) THEN TrimStart(SubSeq(s, 2, Len(s))) ELSE s

RECURSIVE TrimEnd(_)
TrimEnd(s) ==
    IF s /= <<>> /\ IsWhitespace(s[Len(s)])
       THEN TrimEnd(SubSeq(s, 1, Len(s) - 1)) ELSE s

trim(s) == TrimEnd(TrimStart(s))

\* /[\n\r]+/.test(s)
HasLineBreak(s) == \E i \in 1..Len(s) : s[i] \in {"\n", "\r"}

\* A document is the sequence of its nodes in document order, each with its
\* depth (1 for the document's children): a node's children are the nodes
\* one level deeper that follow it before the next node at its depth or
\* above.  Only tags have children.
TextValues ==
    { <<" ">>, <<"\n">>, <<"x">>, <<"x", "\n", " ">>, <<"a", "\n", "b">>,
      <<"\n", "a", "\n", "b">> }

CommentValues == { <<"c">>, <<"c", "\n", "d">> }

NodeLabels ==
    { [type |-> "Tag", name |-> n, value |-> <<>>, close |-> TRUE] :
          n \in {Str_div, Str_B, Str_pre} }
    \cup { [type |-> "Tag", name |-> Str_div, value |-> <<>>, close |-> FALSE] }
    \cup { [type |-> "Text", name |-> <<>>, value |-> v, close |-> FALSE] :
          v \in TextValues }
    \cup { [type |-> "Comment", name |-> <<>>, value |-> v, close |-> FALSE] :
          v \in CommentValues }
    \cup { [type |-> "Doctype", name |-> <<>>, value |-> <<>>, close |-> FALSE] }

WithDepth(l, k) ==
    [type |-> l.type, name |-> l.name, value |-> l.value, close |-> l.close,
     depth |-> k]

\* The depths a node appended to document d may have.
NextDepths(d) ==
    IF d = <<>> THEN {1}
    ELSE 1..(d[Len(d)].depth + (IF d[Len(d)].type = "Tag" THEN 1 ELSE 0))

\* The last node of the subtree of node i.
RECURSIVE LastOf(_, _, _)
LastOf(d, i, j) ==
    IF j < Len(d) /\ d[j + 1].depth > d[i].depth THEN LastOf(d, i, j + 1) ELSE j

LastDescendant(d, i) == LastOf(d, i, i)

\* node.children, as the indices of the children in order.
RECURSIVE ChildrenFrom(_, _, _, _)
ChildrenFrom(d, depth, j, last) ==
    IF j > last THEN <<>>
    ELSE (IF d[j].depth = depth THEN << j >> ELSE <<>>)
         \o ChildrenFrom(d, depth, j + 1, last)

children(d, i) == ChildrenFrom(d, d[i].depth + 1, i + 1, LastDescendant(d, i))

DocumentChildren(d) == ChildrenFrom(d, 1, 1, Len(d))

\* Line numbers: a node starts on line 1 plus the line feeds of the text
\* before it, and ends after the line feeds of its own subtree.
RECURSIVE CountLF(_)
CountLF(s) ==
    IF s = <<>> THEN 0
    ELSE (IF s[1] = "\n" THEN 1 ELSE 0) + CountLF(SubSeq(s, 2, Len(s)))

RECURSIVE LFUpTo(_, _)
LFUpTo(d, j) == IF j = 0 THEN 0 ELSE LFUpTo(d, j - 1) + CountLF(d[j].value)

\* node.loc.start.line, node.loc.end.line
StartLine(d, i) == 1 + LFUpTo(d, i - 1)
EndLine(d, i)   == 1 + LFUpTo(d, LastDescendant(d, i))

\* node.openEnd.loc.end.line, node.close.loc.start.line
OpenEndLine(d, i)    == StartLine(d, i)
CloseStartLine(d, i) == EndLine(d, i)

\* context.options[0] || {}: inline and skip default to [].
InlineOptions == { <<>>, << Str_inlinePreset, Str_pre >> }
SkipOptions   == { <<>>, << Str_pre >> }

\* optionsOrPresets(options)
RECURSIVE optionsOrPresets(_)
optionsOrPresets(opts) ==
    IF opts = <<>> THEN <<>>
    ELSE (IF opts[1] = Str_inlinePreset THEN PRESET_inline ELSE << opts[1] >>)
         \o optionsOrPresets(SubSeq(opts, 2, Len(opts)))

isEmptyText(n) == n.type = "Text" /\ Len(trim(n.value)) = 0

\* /(\n|\r\n)\s*$/.test(value)
NewlineThenSpaceAtEnd(v) ==
    \E i \in 1..Len(v) :
        /\ v[i] = "\n"
        /\ \A j \in (i + 1)..Len(v) : IsWhitespace(v[j])

\* /^(\n|\r\n)/.test(value)
NewlineAtStart(v) ==
    \/ (Len(v) >= 1 /\ v[1] = "\n")
    \/ (Len(v) >= 2 /\ v[1] = "\r" /\ v[2] = "\n")

isNotNewlineEnd(n) == n.type /= "Text" \/ ~NewlineThenSpaceAtEnd(n.value)

isNotNewlineStart(n) == n.type /= "Text" \/ ~NewlineAtStart(n.value)

TypeName(t) ==
    CASE t = "Text" -> <<"T", "e", "x", "t">>
      [] t = "Comment" -> <<"C", "o", "m", "m", "e", "n", "t">>
      [] t = "Doctype" -> <<"D", "o", "c", "t", "y", "p", "e">>
      [] OTHER -> <<"T", "a", "g">>

label(n, isClose) ==
    IF n.type = "Tag"
       THEN (IF isClose THEN <<"<", "/">> ELSE <<"<">>) \o n.name \o <<">">>
       ELSE <<"<">> \o TypeName(n.type) \o <<">">>

shouldBeNewline(n, inlineTags) ==
    IF n.type = "Comment" THEN HasLineBreak(trim(n.value))
    ELSE IF n.type = "Tag" THEN ~Includes(inlineTags, toLowerCase(n.name))
    ELSE IF n.type = "Text" THEN HasLineBreak(trim(n.value))
    ELSE TRUE

\* A diagnostic of the newline rule: anchored at node `at`, its fix one
\* insertion of "\n" before or after a node, an open end or a closing tag.
NlReport(id, at, tag, op, part, target) ==
    [messageId |-> id, node |-> at, tag |-> tag,
     fix |-> [op |-> op, part |-> part, target |-> target, text |-> <<"\n">>]]

\* The first loop of checkSiblings: the nodes that are not empty text.
RECURSIVE nodesWithContent(_, _)
nodesWithContent(d, siblings) ==
    IF siblings = <<>> THEN <<>>
    ELSE (IF isEmptyText(d[siblings[1]]) = FALSE THEN << siblings[1] >> ELSE <<>>)
         \o nodesWithContent(d, SubSeq(siblings, 2, Len(siblings)))

\* Mutant: the closing-tag diagnostic without the test that the last child
\* ends on the line of the closing tag.
OpenCloseReports_AnyLine(d, i, nodeShouldBeNewline, nodeMeta) ==
    IF /\ nodeShouldBeNewline
       /\ nodeMeta.shouldBeNewline
       /\ nodeMeta.childFirst /= 0
       /\ nodeMeta.childLast /= 0
    THEN (IF /\ OpenEndLine(d, i) = StartLine(d, nodeMeta.childFirst)
             /\ isNotNewlineStart(d[nodeMeta.childFirst])
          THEN << NlReport(EXPECT_NEW_LINE_AFTER_OPEN, i, label(d[i], FALSE),
                           "insertTextAfter", "openEnd", i) >>
          ELSE <<>>)
         \o
         (IF /\ d[i].close
             /\ isNotNewlineEnd(d[nodeMeta.childLast])
          THEN << NlReport(EXPECT_NEW_LINE_BEFORE_CLOSE, i, label(d[i], TRUE),
                           "insertTextBefore", "close", i) >>
          ELSE <<>>)
    ELSE <<>>

\* The open/close diagnostics of tag i, given the result of its children.
OpenCloseReports(d, i, nodeShouldBeNewline, nodeMeta) ==
    IF /\ nodeShouldBeNewline
       /\ nodeMeta.shouldBeNewline
       /\ nodeMeta.childFirst /= 0
       /\ nodeMeta.childLast /= 0
    THEN (IF /\ OpenEndLine(d, i) = StartLine(d, nodeMeta.childFirst)
             /\ isNotNewlineStart(d[nodeMeta.childFirst])
          THEN << NlReport(EXPECT_NEW_LINE_AFTER_OPEN, i, label(d[i], FALSE),
                           "insertTextAfter", "openEnd", i) >>
          ELSE <<>>)
         \o
         (IF /\ d[i].close
             /\ EndLine(d, nodeMeta.childLast) = CloseStartLine(d, i)
             /\ isNotNewlineEnd(d[nodeMeta.childLast])
          THEN << NlReport(EXPECT_NEW_LINE_BEFORE_CLOSE, i, label(d[i], TRUE),
                           "insertTextBefore", "close", i) >>
          ELSE <<>>)
    ELSE <<>>

\* Mutant: the two tests of a pair made independently, not as if / else if.
PairReports_NoElse(d, i, next, nodeShouldBeNewline, inlineTags) ==
    IF next /= 0 /\ EndLine(d, i) = StartLine(d, next)
    THEN (IF nodeShouldBeNewline /\ isNotNewlineStart(d[next])
          THEN << NlReport(EXPECT_NEW_LINE_AFTER, next, label(d[i], FALSE),
                           "insertTextAfter", "node", i) >>
          ELSE <<>>)
         \o
         (IF shouldBeNewline(d[next], inlineTags) /\ isNotNewlineEnd(d[i])
          THEN << NlReport(EXPECT_NEW_LINE_BEFORE, next, label(d[next], FALSE),
                           "insertTextBefore", "node", next) >>
          ELSE <<>>)
    ELSE <<>>

\* The diagnostic of the pair (i, next), next = 0 when i is the last node.
PairReports(d, i, next, nodeShouldBeNewline, inlineTags) ==
    IF next /= 0 /\ EndLine(d, i) = StartLine(d, next)
    THEN IF nodeShouldBeNewline
         THEN (IF isNotNewlineStart(d[next])
               THEN << NlReport(EXPECT_NEW_LINE_AFTER, next, label(d[i], FALSE),
                                "insertTextAfter", "node", i) >>
               ELSE <<>>)
         ELSE IF shouldBeNewline(d[next], inlineTags)
         THEN (IF isNotNewlineEnd(d[i])
               THEN << NlReport(EXPECT_NEW_LINE_BEFORE, next, label(d[next], FALSE),
                                "insertTextBefore", "node", next) >>
               ELSE <<>>)
         ELSE <<>>
    ELSE <<>>

\* Mutant: checkSiblings recursing into every tag, skip ignored.
Recurses_IgnoreSkip(n, skipTags) == n.type = "Tag"

\* Whether checkSiblings recurses into node n.
Recurses(n, skipTags) == n.type = "Tag" /\ Includes(skipTags, n.name) = FALSE

\* Mutant: the group wants a newline only when the tag and its children both do.
MetaAfter_Both(meta, i, recursed, nodeShouldBeNewline, nodeMeta) ==
    [childFirst |-> IF meta.childFirst = 0 THEN i ELSE meta.childFirst,
     childLast |-> i,
     shouldBeNewline |->
        IF recursed /\ (nodeShouldBeNewline /\ nodeMeta.shouldBeNewline)
           THEN TRUE ELSE meta.shouldBeNewline]

\* What the group result becomes after node i, whose children gave nodeMeta.
MetaAfter(meta, i, recursed, nodeShouldBeNewline, nodeMeta) ==
    [childFirst |-> IF meta.childFirst = 0 THEN i ELSE meta.childFirst,
     childLast |-> i,
     shouldBeNewline |->
        IF recursed /\ (nodeShouldBeNewline \/ nodeMeta.shouldBeNewline)
           THEN TRUE ELSE meta.shouldBeNewline]

\* checkSiblings(siblings): the group result (meta) and the diagnostics
\* reported, in order.  SiblingsLoop is its second loop from `index` on.
RECURSIVE checkSiblings(_, _, _, _)
RECURSIVE SiblingsLoop(_, _, _, _, _, _)
SiblingsLoop(d, nodes, index, acc, inlineTags, skipTags) ==
    IF index > Len(nodes) THEN acc
    ELSE
      LET i == nodes[index]
          next == IF index < Len(nodes) THEN nodes[index + 1] ELSE 0
          nodeShouldBeNewline == shouldBeNewline(d[i], inlineTags)
          recursed == Recurses(d[i], skipTags)
          sub == IF recursed
                    THEN checkSiblings(d, children(d, i), inlineTags, skipTags)
                    ELSE [meta |-> NoMeta, reports |-> <<>>]
          here == sub.reports
                  \o (IF recursed
                         THEN OpenCloseReports(d, i, nodeShouldBeNewline, sub.meta)
                         ELSE <<>>)
                  \o PairReports(d, i, next, nodeShouldBeNewline, inlineTags)
      IN SiblingsLoop(d, nodes, index + 1,
                      [meta |-> MetaAfter(acc.meta, i, recursed,
                                          nodeShouldBeNewline, sub.meta),
                       reports |-> acc.reports \o here],
                      inlineTags, skipTags)

checkSiblings(d, siblings, inlineTags, skipTags) ==
    SiblingsLoop(d, nodesWithContent(d, siblings), 1,
                 [meta |-> NoMeta, reports |-> <<>>], inlineTags, skipTags)

\* The calls of checkSiblings that one call on the children of `parent`
\* (0: the document) makes, itself included, each named by the node whose
\* children it is given, in the order the calls are made.
RECURSIVE checkSiblingsCalls(_, _, _, _)
RECURSIVE CallsLoop(_, _, _, _)
CallsLoop(d, nodes, index, skipTags) ==
    IF index > Len(nodes) THEN <<>>
    ELSE (IF Recurses(d[nodes[index]], skipTags)
             THEN checkSiblingsCalls(d, nodes[index],
                                     children(d, nodes[index]), skipTags)
             ELSE <<>>)
         \o CallsLoop(d, nodes, index + 1, skipTags)

checkSiblingsCalls(d, parent, siblings, skipTags) ==
    << parent >> \o CallsLoop(d, nodesWithContent(d, siblings), 1, skipTags)


(***************************************************************************)
(* splitToLineNodes                                                        *)
(***************************************************************************)
MaxLen == 3
MaxStart == 2

isRangesOverlap(rangeA, rangeB) == rangeA[1] < rangeB[2] /\ rangeB[1] < rangeA[2]

\* shouldSkipIndentCheck(range), over node.templates || []
shouldSkipIndentCheck(templates, range) ==
    \E t \in 1..Len(templates) :
        templates[t].isTemplate /\ isRangesOverlap(templates[t].range, range)

\* String.prototype.split("\n")
RECURSIVE SplitLF(_, _)
SplitLF(s, piece) ==
    IF s = <<>> THEN << piece >>
    ELSE IF s[1] = "\n" THEN << piece >> \o SplitLF(SubSeq(s, 2, Len(s)), <<>>)
    ELSE SplitLF(SubSeq(s, 2, Len(s)), Append(piece, s[1]))

split(s) == SplitLF(s, <<>>)

\* The forEach callback of splitToLineNodes on the piece at `index`, and the
\* new values of start and line.
LineNode(value, index, start, line, startCol, templates) ==
    LET columnStart == IF index = 1 THEN startCol ELSE 0
        range == << start, start + Len(value) >>
    IN [type |-> "Line",
        value |-> value,
        range |-> range,
        loc |-> [start |-> [line |-> line, column |-> columnStart],
                 end |-> [line |-> line, column |-> columnStart + Len(value)]],
        skipIndentCheck |-> shouldSkipIndentCheck(templates, range)]

\* Mutant: start advanced by the line's length alone, the line break forgotten.
NextStart_NoLineBreak(start, value) == start + Len(value)

NextStart(start, value) == start + Len(value) + 1

RECURSIVE LinesFrom(_, _, _, _, _, _)
LinesFrom(pieces, index, start, line, startCol, templates) ==
    IF index > Len(pieces) THEN <<>>
    ELSE << LineNode(pieces[index], index, start, line, startCol, templates) >>
         \o LinesFrom(pieces, index + 1, NextStart(start, pieces[index]),
                      line + 1, startCol, templates)

splitToLineNodes(n) ==
    LinesFrom(split(n.value), 1, n.start, n.line, n.column, n.templates)

RECURSIVE StringsOfLength(_, _)
StringsOfLength(alphabet, n) ==
    IF n = 0 THEN { <<>> }
    ELSE { Append(v, c) : v \in StringsOfLength(alphabet, n - 1), c \in alphabet }

SplitValues == UNION { StringsOfLength({"a", "\n", "\r"}, n) : n \in 0..MaxLen }

\* node.templates of a node that starts at `start`.
TemplateLists(start) ==
    { <<>>,
      << [isTemplate |-> TRUE, range |-> << start, start + 1 >>] >>,
      << [isTemplate |-> FALSE, range |-> << start, start + 2 >>],
         [isTemplate |-> TRUE, range |-> << start + 2, start + 3 >>] >> }

(***************************************************************************)
(* Specifications                                                          *)
(***************************************************************************)
SpecClose == InitClose /\ [][NextClose]_vars

\* The newline rule: the parser delivers the document node by node; then the
\* rule is created with its options and its Document handler runs.
InitNewline ==
    /\ nlOptions = NoNlOptions
    /\ doc = <<>>
    /\ result = NoResult
    /\ nlPc = "parsing"
    /\ options = NoOptions /\ ruleDef = 0 /\ path = <<>>
    /\ foreignContext = <<>> /\ node = NoTag /\ locals = NoLocals
    /\ reported = <<>> /\ pc = "idle"
    /\ textNode = NoTextNode /\ lineNodes = <<>> /\ splitPc = "idle"

ParseNode(l, k) ==
    /\ nlPc = "parsing"
    /\ Len(doc) < MaxNodes
    /\ k \in NextDepths(doc)
    /\ doc' = Append(doc, WithDepth(l, k))
    /\ UNCHANGED <<nlOptions, result, nlPc, closeVars, splitVars>>

\* create(context) with options o, then Document(node).
Document(o) ==
    /\ nlPc = "parsing"
    /\ nlOptions' = o
    /\ result' = checkSiblings(doc, DocumentChildren(doc),
                               optionsOrPresets(o.inline), o.skip)
    /\ nlPc' = "checked"
    /\ UNCHANGED <<doc, closeVars, splitVars>>

NextNewline ==
    \/ \E l \in NodeLabels, k \in 1..MaxNodes : ParseNode(l, k)
    \/ \E o \in [inline : InlineOptions, skip : SkipOptions] : Document(o)

SpecNewline == InitNewline /\ [][NextNewline]_vars

\* splitToLineNodes applied to a Text / CommentContent node.
InitSplit ==
    /\ textNode \in
         { n \in [value : SplitValues, start : 0..MaxStart, line : {1, 2},
                  column : 0..MaxStart,
                  templates : UNION { TemplateLists(st) : st \in 0..MaxStart }] :
             n.templates \in TemplateLists(n.start) }
    /\ lineNodes = <<>>
    /\ splitPc = "input"
    /\ options = NoOptions /\ ruleDef = 0 /\ path = <<>>
    /\ foreignContext = <<>> /\ node = NoTag /\ locals = NoLocals
    /\ reported = <<>> /\ pc = "idle"
    /\ nlOptions = NoNlOptions /\ doc = <<>> /\ result = NoResult
    /\ nlPc = "idle"

Split ==
    /\ splitPc = "input"
    /\ lineNodes' = splitToLineNodes(textNode)
    /\ splitPc' = "split"
    /\ UNCHANGED <<textNode, closeVars, newlineVars>>

NextSplit == Split

SpecSplit == InitSplit /\ [][NextSplit]_vars


(***************************************************************************)
(* The source text of a tag and the text a fix's edits turn it into        *)
(* (the open tag's tokens and the closing tag; children are left out).     *)
(***************************************************************************)
OpenEndText(n) == IF n.openEnd = "/>" THEN <<"/", ">">> ELSE <<">">>

CloseText(n) == IF n.close THEN <<"<", "/">> \o n.name \o <<">">> ELSE <<>>

SourceText(n) == <<"<">> \o n.name \o OpenEndText(n) \o CloseText(n)

HasEdit(es, op) == \E i \in 1..Len(es) : es[i].op = op

EditText(es, op) == (CHOOSE i \in 1..Len(es) : es[i].op = op)

FixedText(n, es) ==
    <<"<">> \o n.name
    \o (IF HasEdit(es, "replaceText")
           THEN es[EditText(es, "replaceText")].text ELSE OpenEndText(n))
    \o (IF HasEdit(es, "remove") THEN <<>> ELSE CloseText(n))

(***************************************************************************)
(* Claims about the closing-tag rule                                       *)
(***************************************************************************)
\* The latest step was a call of the Tag handler on `node`.
Entered == pc \in {"walk", "aborted"} /\ node /= NoTag

\* The tags that were open when `node` was handed to the handler.
Ancestors ==
    IF pc = "aborted" \/ path = <<>> THEN path ELSE SubSeq(path, 1, Len(path) - 1)

HasForeignAncestor == \E i \in 1..Len(Ancestors) : IsForeignName(Ancestors[i].name)

Always == options.given /\ options.selfClosing = "always"
Never  == options.given /\ options.selfClosing = "never"

MatchesCustomPattern(name) ==
    \E i \in 1..Len(customPatterns(options)) :
        RegExpMatch(name, customPatterns(options)[i])

\* C1 (as claimed): for a void element, with selfClosing "always" a tag
\* written ">" is reported MISSING_SELF and its fix rewrites the open end to
\* " />" (<img> becomes <img />); with selfClosing "never" a tag written "/>"
\* is reported UNEXPECTED and its fix rewrites the open end to ">".
C1_VoidElementFixed ==
    (Entered /\ ruleDef = 1 /\ node.name \in VOID_ELEMENTS_SET) =>
        /\ (Always /\ node.openEnd = ">") =>
              /\ Len(reported) = 1
              /\ reported[1].messageId = MISSING_SELF
              /\ reported[1].fix.kind = "edits"
              /\ FixedText(node, reported[1].fix.edits)
                     = <<"<">> \o node.name \o <<" ", "/", ">">>
        /\ (Never /\ node.openEnd = "/>") =>
              /\ Len(reported) = 1
              /\ reported[1].messageId = UNEXPECTED
              /\ reported[1].fix.kind = "edits"
              /\ FixedText(node, reported[1].fix.edits)
                     = <<"<">> \o node.name \o <<">">>

\* The "never" half of C1, which the code satisfies.
C1_NeverHalf ==
    (Entered /\ ruleDef = 1 /\ node.name \in VOID_ELEMENTS_SET
        /\ Never /\ node.openEnd = "/>") =>
        /\ Len(reported) = 1
        /\ reported[1].messageId = UNEXPECTED
        /\ reported[1].fix = Edits(<< replaceText(<<">">>) >>)

\* A tag at document level, written ">", with a closing tag, not void.
PlainClosedTag ==
    /\ Entered
    /\ ~HasForeignAncestor
    /\ node.openEnd = ">"
    /\ node.close
    /\ node.name \notin VOID_ELEMENTS_SET

\* C2 (as claimed): such a tag gets no diagnostic under any configuration.
C2_NoDiagnosticAnyConfig ==
    (PlainClosedTag /\ ruleDef = 1) => reported = <<>>

\* C2 (amended): such a tag gets no diagnostic unless its name matches a
\* customPatterns entry, it has no children, allowSelfClosingCustom is true
\* and selfClosing is "always"; then it is reported MISSING_SELF, the fix
\* rewriting the open end and removing the closing tag.
C2_NoDiagnosticUnlessCustom ==
    (PlainClosedTag /\ ruleDef = 1) =>
        IF /\ MatchesCustomPattern(node.name)
           /\ node.children = 0
           /\ options.given /\ options.allowSelfClosingCustom
           /\ Always
        THEN /\ Len(reported) = 1
             /\ reported[1].messageId = MISSING_SELF
             /\ FixedText(node, reported[1].fix.edits)
                    = <<"<">> \o node.name \o <<" ", "/", ">">>
        ELSE reported = <<>>

\* <div></div> under a configuration that sets every option, customPatterns
\* included, and reports nothing.
C2_Witness ==
    /\ PlainClosedTag /\ ruleDef = 1
    /\ node.name = Str_div
    /\ Always /\ options.allowSelfClosingCustom
    /\ options.hasCustomPatterns /\ options.customPatterns /= <<>>
    /\ reported = <<>>

\* C3 (as claimed): a tag with a hyphenated name written "/>", with
\* allowSelfClosingCustom true, gets neither MISSING_SELF nor UNEXPECTED and
\* no edit, whatever selfClosing is.
C3_SelfClosingCustomAccepted ==
    (/\ Entered
     /\ ~HasForeignAncestor
     /\ RegExpMatch(node.name, <<"-">>)
     /\ MatchesCustomPattern(node.name)
     /\ node.openEnd = "/>"
     /\ options.given /\ options.allowSelfClosingCustom) =>
        reported = <<>>

\* C3 under the second definition of the rule alone.
C3_SecondDefinition ==
    (/\ Entered /\ ruleDef = 2
     /\ RegExpMatch(node.name, <<"-">>)
     /\ node.openEnd = "/>"
     /\ options.given /\ options.allowSelfClosingCustom) =>
        reported = <<>>

\* A tag that has no closing tag, is not written "/>" and cannot self-close.
UnclosedTag ==
    /\ Entered
    /\ ~node.close
    /\ node.openEnd /= "/>"
    /\ node.name \notin VOID_ELEMENTS_SET
    /\ ~HasForeignAncestor
    /\ ~(/\ MatchesCustomPattern(node.name)
         /\ options.given /\ options.allowSelfClosingCustom
         /\ node.children = 0)

\* C4: such a tag gets exactly one diagnostic, MISSING, anchored at the tag,
\* with no fix.
C4_MissingNoFix ==
    UnclosedTag =>
        /\ Len(reported) = 1
        /\ reported[1].messageId = MISSING
        /\ reported[1].anchor = "node"
        /\ reported[1].tag = node.name
        /\ reported[1].fix.kind = "absent"

C4_Witness ==
    /\ UnclosedTag /\ ruleDef = 1
    /\ node.name = Str_div
    /\ Len(path) > 1
    /\ Len(reported) = 1 /\ reported[1].messageId = MISSING

\* The names of the open tags named svg or math, outermost first.
RECURSIVE ForeignNamesOf(_)
ForeignNamesOf(p) ==
    IF p = <<>> THEN <<>>
    ELSE (IF IsForeignName(p[1].name) THEN << p[1].name >> ELSE <<>>)
         \o ForeignNamesOf(SubSeq(p, 2, Len(p)))

\* The stack holds exactly the open svg/math tags; the stack the handler saw
\* was non-empty exactly when the tag has an svg/math ancestor; the stack is
\* empty when the traversal ends.
ForeignStackInv ==
    ruleDef = 1 =>
        /\ foreignContext = ForeignNamesOf(path)
        /\ Entered => (locals.foreign <=> HasForeignAncestor)
        /\ pc = "done" => foreignContext = <<>>

\* A step that leaves a tag pops exactly when that tag is the innermost open
\* svg/math tag (the one whose entry pushed the top entry); a step that
\* enters a tag pushes exactly when the tag is named svg or math; no other
\* step changes the stack.
ForeignStackStep ==
    ruleDef = 1 =>
        /\ Len(path') < Len(path) =>
              IF IsForeignName(path[Len(path)].name)
                 THEN /\ foreignContext /= <<>>
                      /\ foreignContext' = SubSeq(foreignContext, 1, Len(foreignContext) - 1)
                 ELSE foreignContext' = foreignContext
        /\ Len(path') > Len(path) =>
              IF IsForeignName(path'[Len(path')].name)
                 THEN foreignContext' = Append(foreignContext, path'[Len(path')].name)
                 ELSE foreignContext' = foreignContext
        /\ Len(path') = Len(path) => foreignContext' = foreignContext

\* C7: during the traversal the foreign-context stack holds exactly the
\* names of the open svg/math tags, outermost first; it is non-empty at a
\* tag's classification exactly when the tag has an svg/math ancestor; every
\* pop happens on the exit of the tag that pushed the top entry; the stack is
\* empty when the traversal ends.
C7_ForeignStack == [](ForeignStackInv) /\ [][ForeignStackStep]_vars

\* A tag inside svg inside svg has been classified, and the stack holds both.
C7_Witness ==
    /\ ruleDef = 1 /\ pc = "walk" /\ node /= NoTag
    /\ Len(path) = 3
    /\ path[1].name = Str_svg /\ path[2].name = Str_svg
    /\ path[3].name = Str_div
    /\ foreignContext = << Str_svg, Str_svg >>
    /\ locals.foreign

\* C8 (as claimed): the MISSING_SELF fix of a fixable tag is the replacement
\* of the open end by " />", plus a removal of the closing tag exactly when
\* one is present; with the closing tag absent it is the one replacement and
\* nothing is raised.
C8_MissingSelfFixEdits ==
    (/\ Entered /\ ruleDef = 1
     /\ Len(reported) = 1
     /\ reported[1].messageId = MISSING_SELF
     /\ locals.canSelfClose) =>
        reported[1].fix =
            Edits(<< replaceText(<<" ", "/", ">">>) >>
                  \o (IF node.close THEN << removeClose >> ELSE <<>>))

\* The half of C8 the code satisfies: with a closing tag present the fix is
\* the replacement and the removal.
C8_WithClosingTag ==
    (/\ Entered /\ ruleDef = 1
     /\ Len(reported) = 1
     /\ reported[1].messageId = MISSING_SELF
     /\ locals.canSelfClose
     /\ node.close) =>
        reported[1].fix = Edits(<< replaceText(<<" ", "/", ">">>), removeClose >>)

\* The diagnostics of the self-close check for `node`, given its desired
\* state and its fixability: MISSING_SELF for a tag that should self-close
\* and is not written "/>", UNEXPECTED for one that should not and is; the
\* fix of a tag that is not fixable is a no-op.
SelfCloseCheck(desired, fixable) ==
    IF desired /\ node.openEnd /= "/>"
       THEN << Report(MISSING_SELF, "openEnd", node,
                      IF ~fixable THEN NullFix
                      ELSE IF node.close
                         THEN Edits(<< replaceText(<<" ", "/", ">">>), removeClose >>)
                      ELSE ThrownFix) >>
    ELSE IF ~desired /\ node.openEnd = "/>"
       THEN << Report(UNEXPECTED, "openEnd", node,
                      IF fixable THEN Edits(<< replaceText(<<">">>) >>)
                      ELSE NullFix) >>
    ELSE <<>>

\* C12: the self-close check runs for a tag exactly when it is written
\* self-closing or canSelfClose is true, with desired state (selfClosing is
\* "always" and canSelfClose) and fixability canSelfClose; otherwise the tag
\* gets neither MISSING_SELF nor UNEXPECTED.  A fix has edits only when
\* canSelfClose is true, and a tag gets at most one diagnostic.
C12_SelfCloseCheck ==
    (Entered /\ ruleDef = 1) =>
        /\ IF node.openEnd = "/>" \/ locals.canSelfClose
              THEN reported = SelfCloseCheck(Always /\ locals.canSelfClose,
                                             locals.canSelfClose)
              ELSE \A i \in 1..Len(reported) :
                      reported[i].messageId \notin {MISSING_SELF, UNEXPECTED}
        /\ \A i \in 1..Len(reported) :
              reported[i].fix.kind = "edits" => locals.canSelfClose
        /\ Len(reported) <= 1

\* <div/> outside svg/math: UNEXPECTED with a no-op fix.
C12_Witness ==
    /\ Entered /\ ruleDef = 1
    /\ node.name = Str_div /\ node.openEnd = "/>"
    /\ ~HasForeignAncestor
    /\ ~locals.canSelfClose
    /\ reported = << Report(UNEXPECTED, "openEnd", node, NullFix) >>

(***************************************************************************)
(* Claims about the newline rule.  The notions of the claims are written   *)
(* here from their words, on the document, and compared with what          *)
(* checkSiblings reported.                                                 *)
(***************************************************************************)
Checked == nlPc = "checked"

Nodes == 1..Len(doc)

PresetInlineNames == { PRESET_inline[i] : i \in 1..Len(PRESET_inline) }

\* Name n is an effective inline name: one of the names given, a preset name
\* standing for the names of the preset.
InlineName(n) ==
    \/ (n /= Str_inlinePreset
          /\ \E i \in 1..Len(nlOptions.inline) : nlOptions.inline[i] = n)
    \/ ((\E i \in 1..Len(nlOptions.inline) : nlOptions.inline[i] = Str_inlinePreset)
          /\ n \in PresetInlineNames)

SkipNames == { nlOptions.skip[i] : i \in 1..Len(nlOptions.skip) }

\* A whitespace-only Text node.
WhitespaceOnly(i) ==
    doc[i].type = "Text" /\ \A k \in 1..Len(doc[i].value) : IsWhitespace(doc[i].value[k])

\* The content, trimmed, contains a line break: a line break with something
\* that is not whitespace on either side.
BreakInside(v) ==
    \E a, k, b \in 1..Len(v) :
        /\ a < k /\ k < b
        /\ v[k] \in {"\n", "\r"}
        /\ ~IsWhitespace(v[a]) /\ ~IsWhitespace(v[b])

\* The node wants a newline itself.
WantsNewline(i) ==
    CASE doc[i].type = "Tag" -> ~InlineName(toLowerCase(doc[i].name))
      [] doc[i].type \in {"Text", "Comment"} -> BreakInside(doc[i].value)
      [] OTHER -> TRUE

IsAncestor(a, i) == a < i /\ i <= LastDescendant(doc, a)

\* The parent of node i, 0 for a child of the document.
ParentOf(i) ==
    IF doc[i].depth = 1 THEN 0
    ELSE CHOOSE a \in 1..(i - 1) :
             doc[a].depth = doc[i].depth - 1 /\ IsAncestor(a, i)

\* The sibling-group check reaches node i: no ancestor is named in skip.
Reached(i) == \A a \in 1..(i - 1) : IsAncestor(a, i) => doc[a].name \notin SkipNames

\* The non-whitespace sibling before node i, 0 when there is none.
PrevContent(i) ==
    LET parent == ParentOf(i)
        before == { a \in 1..(i - 1) : ~WhitespaceOnly(a) /\ ParentOf(a) = parent }
    IN IF before = {} THEN 0 ELSE CHOOSE a \in before : \A c \in before : c <= a

\* The first and the last non-whitespace child of tag i, 0 when there is none.
ContentChildren(i) ==
    { c \in (i + 1)..Len(doc) : ~WhitespaceOnly(c) /\ ParentOf(c) = i }

FirstContent(i) ==
    LET cc == ContentChildren(i)
    IN IF cc = {} THEN 0 ELSE CHOOSE c \in cc : \A e \in cc : c <= e

LastContent(i) ==
    LET cc == ContentChildren(i)
    IN IF cc = {} THEN 0 ELSE CHOOSE c \in cc : \A e \in cc : e <= c

StartsWithLineBreak(i) ==
    /\ doc[i].type = "Text"
    /\ \/ doc[i].value[1] = "\n"
       \/ (Len(doc[i].value) >= 2 /\ doc[i].value[1] = "\r" /\ doc[i].value[2] = "\n")

\* The node's text ends with a line break: its last character is one.
EndsWithLineBreak(i) ==
    doc[i].type = "Text" /\ doc[i].value[Len(doc[i].value)] = "\n"

\* The node's text ends with a line break followed by nothing but whitespace.
EndsWithLineBreakThenSpace(i) ==
    /\ doc[i].type = "Text"
    /\ \E k \in 1..Len(doc[i].value) :
          /\ doc[i].value[k] = "\n"
          /\ \A j \in (k + 1)..Len(doc[i].value) : IsWhitespace(doc[i].value[j])

ReportsAt(i, ids) ==
    SelectSeq(result.reports, LAMBDA r : r.node = i /\ r.messageId \in ids)

PairIds == {EXPECT_NEW_LINE_AFTER, EXPECT_NEW_LINE_BEFORE}

AfterReport(a, b) ==
    NlReport(EXPECT_NEW_LINE_AFTER, b, label(doc[a], FALSE), "insertTextAfter", "node", a)

BeforeReport(b) ==
    NlReport(EXPECT_NEW_LINE_BEFORE, b, label(doc[b], FALSE), "insertTextBefore", "node", b)

\* Node b is a non-whitespace node of a group the check reaches, a is the
\* non-whitespace sibling before it, and a ends on the line where b starts.
PairOnOneLine(a, b) ==
    /\ a /= 0
    /\ ~WhitespaceOnly(b) /\ Reached(b)
    /\ EndLine(doc, a) = StartLine(doc, b)

RECURSIVE GroupWantsAsClaimed(_)
GroupWantsAsClaimed(parent) ==
    \E i \in (parent + 1)..Len(doc) :
        /\ ParentOf(i) = parent /\ ~WhitespaceOnly(i)
        /\ \/ WantsNewline(i)
           \/ (doc[i].type = "Tag" /\ doc[i].name \notin SkipNames
                 /\ GroupWantsAsClaimed(i))

\* Some tag of the group whose name is not in skip wants a newline itself,
\* or its own children group does.
RECURSIVE GroupWants(_)
GroupWants(parent) ==
    \E i \in (parent + 1)..Len(doc) :
        /\ doc[i].type = "Tag" /\ doc[i].name \notin SkipNames
        /\ ParentOf(i) = parent
        /\ (WantsNewline(i) \/ GroupWants(i))

\* C9 (as claimed): the result of the group has shouldBeNewline true exactly
\* when some non-whitespace node of the group wants a newline itself or some
\* node in its recursively checked children does; childFirst and childLast
\* are the first and last nodes that are not whitespace-only Text.
C9_MetaAsClaimed ==
    Checked =>
        /\ result.meta.shouldBeNewline <=> GroupWantsAsClaimed(0)
        /\ result.meta.childFirst = FirstContent(0)
        /\ result.meta.childLast = LastContent(0)

\* C9 (amended): shouldBeNewline is true exactly when some Tag of the group
\* whose name is not in skip wants a newline itself or has a children group
\* whose result does; a Text, a Comment, a node of another type or a skipped
\* tag that wants a newline does not set it.  childFirst and childLast as
\* claimed.
C9_Meta ==
    Checked =>
        /\ result.meta.shouldBeNewline <=> GroupWants(0)
        /\ result.meta.childFirst = FirstContent(0)
        /\ result.meta.childLast = LastContent(0)

\* A group whose only node wanting a newline sits two levels down, in an
\* inline tag inside an inline tag.
C9_Witness ==
    /\ Checked
    /\ Len(doc) = 3
    /\ \A i \in {1, 2} : doc[i].type = "Tag" /\ ~WantsNewline(i)
    /\ doc[3].type = "Tag" /\ doc[3].depth = 3 /\ WantsNewline(3)
    /\ result.meta.shouldBeNewline
    /\ result.meta.childFirst = 1 /\ result.meta.childLast = 1

\* The result of the children group of tag i.
ChildrenWant(i) ==
    checkSiblings(doc, children(doc, i), optionsOrPresets(nlOptions.inline),
                  nlOptions.skip).meta.shouldBeNewline

AfterOpenReport(i) ==
    NlReport(EXPECT_NEW_LINE_AFTER_OPEN, i, label(doc[i], FALSE),
             "insertTextAfter", "openEnd", i)

BeforeCloseReport(i) ==
    NlReport(EXPECT_NEW_LINE_BEFORE_CLOSE, i, label(doc[i], TRUE),
             "insertTextBefore", "close", i)

\* C10 (as claimed): for a Tag not in skip that wants a newline and whose
\* children group wants one, AFTER_OPEN exactly when the open end is on the
\* line where the first non-empty child starts and that child does not start
\* with a line break; BEFORE_CLOSE exactly when a closing tag exists, starts
\* on the line where the last non-empty child ends, and that child does not
\* end with a line break.  Neither for an inline tag or a tag whose children
\* group does not want a newline.
C10_OpenCloseAsClaimed ==
    Checked =>
        \A i \in Nodes :
            (doc[i].type = "Tag" /\ doc[i].name \notin SkipNames) =>
                IF WantsNewline(i) /\ ChildrenWant(i)
                THEN /\ ReportsAt(i, {EXPECT_NEW_LINE_AFTER_OPEN}) =
                           IF /\ OpenEndLine(doc, i) = StartLine(doc, FirstContent(i))
                              /\ ~StartsWithLineBreak(FirstContent(i))
                              THEN << AfterOpenReport(i) >> ELSE <<>>
                     /\ ReportsAt(i, {EXPECT_NEW_LINE_BEFORE_CLOSE}) =
                           IF /\ doc[i].close
                              /\ CloseStartLine(doc, i) = EndLine(doc, LastContent(i))
                              /\ ~EndsWithLineBreak(LastContent(i))
                              THEN << BeforeCloseReport(i) >> ELSE <<>>
                ELSE ReportsAt(i, {EXPECT_NEW_LINE_AFTER_OPEN,
                                   EXPECT_NEW_LINE_BEFORE_CLOSE}) = <<>>

\* C10 (amended): the same for a Tag the check reaches (no ancestor in
\* skip), a last child that ends with a line break followed only by
\* whitespace counting as ending with one; a tag below a skipped tag gets
\* neither diagnostic.
C10_OpenClose ==
    Checked =>
        \A i \in Nodes :
            (doc[i].type = "Tag" /\ doc[i].name \notin SkipNames) =>
                IF Reached(i) /\ WantsNewline(i) /\ ChildrenWant(i)
                THEN /\ ReportsAt(i, {EXPECT_NEW_LINE_AFTER_OPEN}) =
                           IF /\ OpenEndLine(doc, i) = StartLine(doc, FirstContent(i))
                              /\ ~StartsWithLineBreak(FirstContent(i))
                              THEN << AfterOpenReport(i) >> ELSE <<>>
                     /\ ReportsAt(i, {EXPECT_NEW_LINE_BEFORE_CLOSE}) =
                           IF /\ doc[i].close
                              /\ CloseStartLine(doc, i) = EndLine(doc, LastContent(i))
                              /\ ~EndsWithLineBreakThenSpace(LastContent(i))
                              THEN << BeforeCloseReport(i) >> ELSE <<>>
                ELSE ReportsAt(i, {EXPECT_NEW_LINE_AFTER_OPEN,
                                   EXPECT_NEW_LINE_BEFORE_CLOSE}) = <<>>

\* <div><div></div>x</div> on one line: both diagnostics for the outer div.
C10_Witness ==
    /\ Checked
    /\ Len(doc) = 3
    /\ doc[1].name = Str_div /\ doc[1].close /\ WantsNewline(1)
    /\ doc[2].type = "Tag" /\ doc[2].depth = 2
    /\ doc[3].type = "Text" /\ doc[3].depth = 2 /\ ~WhitespaceOnly(3)
    /\ ReportsAt(1, {EXPECT_NEW_LINE_AFTER_OPEN}) = << AfterOpenReport(1) >>
    /\ ReportsAt(1, {EXPECT_NEW_LINE_BEFORE_CLOSE}) = << BeforeCloseReport(1) >>

\* A tag whose name is in skip.
SkippedTag(i) == doc[i].type = "Tag" /\ doc[i].name \in SkipNames

\* The groups the claim has checked: the document's children (0) and the
\* children of every reachable Tag whose name is not in skip.
GroupsChecked ==
    {0} \cup { i \in Nodes : doc[i].type = "Tag" /\ ~SkippedTag(i) /\ Reached(i) }

\* The calls of checkSiblings the Document handler's call makes.
Calls == checkSiblingsCalls(doc, 0, DocumentChildren(doc), nlOptions.skip)

\* What the pair check reports for the pair (a, b).
ExpectedPair(a, b) ==
    IF WantsNewline(a)
       THEN (IF ~StartsWithLineBreak(b) THEN << AfterReport(a, b) >> ELSE <<>>)
    ELSE IF WantsNewline(b) /\ ~EndsWithLineBreakThenSpace(a)
       THEN << BeforeReport(b) >>
    ELSE <<>>

\* C11: the sibling-group check is applied once to the document's children
\* and once to the children of every reachable Tag whose name is not in
\* skip; no diagnostic is anchored at, or edits, a node below a tag named in
\* skip; a tag named in skip gets no open/close diagnostic; and a tag named
\* in skip still takes part in the pair checks with its own siblings.
C11_Skip ==
    Checked =>
        /\ LET calls == Calls
           IN /\ Len(calls) = Cardinality(GroupsChecked)
              /\ { calls[k] : k \in 1..Len(calls) } = GroupsChecked
        /\ \A k \in 1..Len(result.reports) :
              /\ Reached(result.reports[k].node)
              /\ Reached(result.reports[k].fix.target)
        /\ \A t \in Nodes :
              SkippedTag(t) =>
                  /\ ReportsAt(t, {EXPECT_NEW_LINE_AFTER_OPEN,
                                   EXPECT_NEW_LINE_BEFORE_CLOSE}) = <<>>
                  /\ \A b \in t..Len(doc) :
                        LET a == PrevContent(b)
                        IN (PairOnOneLine(a, b) /\ (a = t \/ b = t)) =>
                              ReportsAt(b, PairIds) = ExpectedPair(a, b)

\* <div></div><pre><div></div></pre> on one line with skip ["pre"]: the
\* pair (div, pre) is reported, nothing is reported in or for the pre.
C11_Witness ==
    /\ Checked
    /\ nlOptions.skip = << Str_pre >> /\ nlOptions.inline = <<>>
    /\ Len(doc) = 3
    /\ doc[1].name = Str_div /\ doc[1].close
    /\ doc[2].name = Str_pre /\ doc[2].depth = 1
    /\ doc[3].name = Str_div /\ doc[3].depth = 2
    /\ Calls = << 0, 1 >>
    /\ result.reports = << AfterReport(1, 2) >>

(***************************************************************************)
(* Claims about splitToLineNodes                                           *)
(***************************************************************************)
SplitDone == splitPc = "split"

\* The values of the Line nodes joined with "\n".
RECURSIVE JoinLF(_)
JoinLF(lines) ==
    IF lines = <<>> THEN <<>>
    ELSE IF Len(lines) = 1 THEN lines[1].value
    ELSE lines[1].value \o <<"\n">> \o JoinLF(SubSeq(lines, 2, Len(lines)))

\* k + 1 Line nodes, in order, whose values joined with "\n" give the value.
LinesRebuildValue ==
    /\ Len(lineNodes) = CountLF(textNode.value) + 1
    /\ JoinLF(lineNodes) = textNode.value
    /\ \A i \in 1..Len(lineNodes) : lineNodes[i].type = "Line"

\* C6 (as claimed): k line breaks give k + 1 Line nodes whose values joined
\* with "\n" give the value and whose ranges partition
\* [start, start + value.length): consecutive, non-overlapping, nothing left
\* out.
C6_RangesPartition ==
    SplitDone =>
        /\ LinesRebuildValue
        /\ lineNodes[1].range[1] = textNode.start
        /\ lineNodes[Len(lineNodes)].range[2] = textNode.start + Len(textNode.value)
        /\ \A i \in 1..Len(lineNodes) : lineNodes[i].range[1] <= lineNodes[i].range[2]
        /\ \A i \in 1..(Len(lineNodes) - 1) :
              lineNodes[i + 1].range[1] = lineNodes[i].range[2]

\* C6 (amended): k + 1 Line nodes whose values joined with "\n" give the
\* value; each range is as long as its line's value, the first starts at
\* start, the last ends at start + value.length, and each next range starts
\* one position after the previous one ends: the ranges cover the node's
\* range except the k positions of the line breaks.
C6_RangesSkipLineBreaks ==
    SplitDone =>
        /\ LinesRebuildValue
        /\ lineNodes[1].range[1] = textNode.start
        /\ lineNodes[Len(lineNodes)].range[2] = textNode.start + Len(textNode.value)
        /\ \A i \in 1..Len(lineNodes) :
              lineNodes[i].range[2] = lineNodes[i].range[1] + Len(lineNodes[i].value)
        /\ \A i \in 1..(Len(lineNodes) - 1) :
              /\ lineNodes[i + 1].range[1] = lineNodes[i].range[2] + 1
              /\ textNode.value[lineNodes[i].range[2] - textNode.start + 1] = "\n"

\* A value with two line breaks, in a node that does not start at 0, split
\* into three Line nodes.
C6_Witness ==
    /\ SplitDone
    /\ textNode.start > 0
    /\ CountLF(textNode.value) = 2
    /\ Len(lineNodes) = 3
    /\ lineNodes[2].value = <<"a">>

====
